---- MODULE Spec2Model ----
(***************************************************************************)
(* Distributed-memory AMG preconditioner (amgcl/mpi/amg.hpp):              *)
(* hierarchy construction (amg::amg, amg::init, level::step_down) and the  *)
(* cycle engine (amg::cycle, amg::apply).                                  *)
(*                                                                         *)
(* Matrices are records [rows, cols, id]; a null shared_ptr is NULL.       *)
(* Vector contents are abstracted to the set of origins their value        *)
(* depends on: "rhs" and "x0" (the caller's arguments on entry of a call), *)
(* "stale" (whatever a level's work vector held before the call) and       *)
(* "garbage" (the result of reading through a null pointer).  A cleared    *)
(* vector depends on nothing: {}.                                          *)
(***************************************************************************)
EXTENDS Integers, Sequences, FiniteSets, TLC

\* Bounds of the model.
MaxRows         == 2   \* global rows/cols of the input matrix: 0..MaxRows
MaxCoarseEnough == 1   \* prm.coarse_enough: 0..MaxCoarseEnough
MaxLevelsParam  == 2   \* prm.max_levels: 0..MaxLevelsParam
MaxSweeps       == 1   \* prm.npre, prm.npost: 0..MaxSweeps
MaxNCycle       == 2   \* prm.ncycle: 0..MaxNCycle
MaxPreCycles    == 2   \* prm.pre_cycles: 0..MaxPreCycles
MaxNnz          == 1   \* glob_nonzeros of an operator: 0..MaxNnz

VARIABLES
    prm,          \* amg::prm
    Ain,          \* the matrix handed to the constructor
    A,            \* init's local shared_ptr<matrix> A
    levels,       \* std::list<level> levels
    pc,           \* position of the facade: construction, idle, call in flight
    nStepDown,    \* number of level::step_down calls made
    nCoarseOp,    \* number of Coarsening::coarse_operator calls made
    stack,        \* activation records of cycle(level_iterator, rhs, x)
    x, rhs,       \* the caller's vectors of the call in flight
    call,         \* the public call in flight: "none", "apply", "cycle"
    ci,           \* apply's loop counter i
    flog,         \* what the public call did to the caller's x, in order
    cnt,          \* per level, the number of backend/relaxation operations made
    rep,          \* operator<<: what it read, its sums and what it wrote
    ranks         \* per process of the communicator: its view of init and cycle

vars == <<prm, Ain, A, levels, pc, nStepDown, nCoarseOp,
          stack, x, rhs, call, ci, flog, cnt, rep, ranks>>

ctorVars  == <<prm, Ain, ranks>>
buildVars == <<A, nStepDown, nCoarseOp>>
callVars  == <<stack, x, rhs, call, ci, flog>>

----------------------------------------------------------------------------
\* Values

NULL == [rows |-> 0, cols |-> 0, id |-> -1]

IsNull(m) == m.id = -1

Matrix(r, c, i) == [rows |-> r, cols |-> c, id |-> i]

X0    == {"x0"}
RHS   == {"rhs"}
STALE == {"stale"}

ZeroCnt == [enter |-> 0, pre |-> 0, post |-> 0, residual |-> 0,
            restrict |-> 0, prolong |-> 0, clear |-> 0]

\* Sizes Coarsening::transfer_operators may give the coarse level.
CoarseSizesGrow(M) == 0 .. M.rows + 1

\* Sizes Coarsening::transfer_operators may give the coarse level.
CoarseSizes(M) == 0 .. M.rows

\* backend::clear(v)
Clear == {}

\* backend::copy(src, dst): dst holds src's content
Copy(src) == src

\* backend::residual(rhs, A, x, t): t = rhs - A x
Residual(r, xv) == r \cup xv

\* backend::spmv(alpha, M, v, beta, y): y = alpha M v + beta y
Spmv(M, v, beta, y) ==
    IF IsNull(M) THEN {"garbage"} \cup (IF beta = 0 THEN {} ELSE y)
    ELSE IF beta = 0 THEN v ELSE v \cup y

\* relax->apply_pre / apply_post (A, rhs, x, t): x updated in place, t scratch
RelaxX(r, xv) == xv \cup r
RelaxT(r, xv) == r \cup xv

----------------------------------------------------------------------------
\* Construction

\* the two ways a parameter set is produced: params() followed by
\* assignments to its fields, or params(const ptree&)
ParamsSources == {"default", "ptree"}

\* amgcl::precondition(max_levels > 0, ...) in params(const ptree&)
ParamsPrecondition(source) == source = "ptree" => prm.max_levels > 0

\* mpi::precondition(A->comm(), A->glob_rows() == A->glob_cols(), ...)
SquarePrecondition == A.rows = A.cols

\* the condition of init's while loop
LoopCondGe ==
    A.rows >= prm.coarse_enough /\ Len(levels) < prm.max_levels

LoopCond ==
    A.rows > prm.coarse_enough /\ Len(levels) < prm.max_levels

\* level::level(A, prm, bprm): P and R are default-constructed (null)
NewLevelKeepsTransfer(M) ==
    [A |-> M, P |-> Matrix(M.rows, M.rows, M.id), R |-> Matrix(M.rows, M.rows, M.id),
     f |-> STALE, u |-> STALE, t |-> STALE,
     relax |-> M.id, stepped |-> FALSE, backend |-> FALSE]

NewLevel(M) ==
    [A |-> M, P |-> NULL, R |-> NULL,
     f |-> STALE, u |-> STALE, t |-> STALE,
     relax |-> M.id, stepped |-> FALSE, backend |-> FALSE]

\* operator<< has not run
NoReport == [k |-> 0, nnz |-> <<>>, sum_dof |-> 0, sum_nnz |-> 0, out |-> <<>>]

\* the processes of the communicator handed to the constructor
Procs == {"rank0", "rank1"}

\* the sequential model has no per-process view
NoRanks == [p \in Procs |-> [pc |-> "none", A |-> NULL, levels |-> <<>>,
                             stack |-> <<>>, log |-> <<>>]]

Init ==
    /\ prm \in [coarse_enough : 0 .. MaxCoarseEnough,
                max_levels    : 0 .. MaxLevelsParam,
                npre          : 0 .. MaxSweeps,
                npost         : 0 .. MaxSweeps,
                ncycle        : 0 .. MaxNCycle,
                pre_cycles    : 0 .. MaxPreCycles]
    /\ Ain \in {Matrix(r, c, 0) : r \in 0 .. MaxRows, c \in 0 .. MaxRows}
    /\ A = NULL
    /\ levels = <<>>
    /\ pc = "params"
    /\ nStepDown = 0
    /\ nCoarseOp = 0
    /\ stack = <<>>
    /\ x = X0
    /\ rhs = RHS
    /\ call = "none"
    /\ ci = 0
    /\ flog = <<>>
    /\ cnt = <<>>
    /\ rep = NoReport
    /\ ranks = NoRanks

\* params() / params(const ptree&)
ParamsCtor ==
    /\ pc = "params"
    /\ \E source \in ParamsSources :
          pc' = IF ParamsPrecondition(source) THEN "ctor" ELSE "failed"
    /\ UNCHANGED <<ctorVars, rep, buildVars, levels, callVars, cnt>>

\* amg::amg: prm(prm), init(make_shared<matrix>(comm, A, ...), bprm)
AmgCtor ==
    /\ pc = "ctor"
    /\ A' = Ain
    /\ pc' = "init"
    /\ UNCHANGED <<ctorVars, rep, nStepDown, nCoarseOp, levels, callVars, cnt>>

\* init: the squareness precondition
InitCheckSkipped ==
    /\ pc = "init"
    /\ pc' = "while"
    /\ UNCHANGED <<ctorVars, rep, buildVars, levels, callVars, cnt>>

InitCheck ==
    /\ pc = "init"
    /\ pc' = IF SquarePrecondition THEN "while" ELSE "failed"
    /\ UNCHANGED <<ctorVars, rep, buildVars, levels, callVars, cnt>>

\* init: the loop test, levels.push_back(level(A, prm, bprm)) and the
\* max_levels break
InitWhile ==
    /\ pc = "while"
    /\ IF LoopCond
       THEN /\ levels' = Append(levels, NewLevel(A))
            /\ cnt' = Append(cnt, ZeroCnt)
            /\ pc' = IF Len(levels') >= prm.max_levels THEN "after" ELSE "step_down"
       ELSE /\ pc' = "after"
            /\ UNCHANGED <<levels, cnt>>
    /\ UNCHANGED <<ctorVars, rep, buildVars, callVars>>

\* init: A = levels.back().step_down(prm); levels.back().move_to_backend();
\* if (!A) break;
StepDownNoZeroCheck ==
    /\ pc = "step_down"
    /\ \E nc \in CoarseSizes(A) :
        LET n  == Len(levels)
            P  == Matrix(A.rows, nc, n)
            R  == Matrix(nc, A.rows, n)
            Ac == Matrix(nc, nc, n)
        IN  /\ levels' = [levels EXCEPT ![n].P = P, ![n].R = R,
                                        ![n].stepped = TRUE, ![n].backend = TRUE]
            /\ nStepDown' = nStepDown + 1
            /\ nCoarseOp' = nCoarseOp + 1
            /\ A' = Ac
            /\ pc' = IF IsNull(Ac) THEN "after" ELSE "while"
    /\ UNCHANGED <<ctorVars, rep, callVars, cnt>>

\* init: A = levels.back().step_down(prm); levels.back().move_to_backend();
\* if (!A) break;
StepDown ==
    /\ pc = "step_down"
    /\ \E nc \in CoarseSizes(A) :
        LET n  == Len(levels)
            P  == Matrix(A.rows, nc, n)
            R  == Matrix(nc, A.rows, n)
            Ac == IF P.cols = 0 THEN NULL ELSE Matrix(nc, nc, n)
        IN  /\ levels' = [levels EXCEPT ![n].P = P, ![n].R = R,
                                        ![n].stepped = TRUE, ![n].backend = TRUE]
            /\ nStepDown' = nStepDown + 1
            /\ nCoarseOp' = IF P.cols = 0 THEN nCoarseOp ELSE nCoarseOp + 1
            /\ A' = Ac
            /\ pc' = IF IsNull(Ac) THEN "after" ELSE "while"
    /\ UNCHANGED <<ctorVars, rep, callVars, cnt>>

\* init: if (A) { levels.push_back(level(A, prm, bprm)); move_to_backend(); }
InitFinish ==
    /\ pc = "after"
    /\ IF ~IsNull(A)
       THEN /\ levels' = Append(levels, [NewLevel(A) EXCEPT !.backend = TRUE])
            /\ cnt' = Append(cnt, ZeroCnt)
       ELSE UNCHANGED <<levels, cnt>>
    /\ pc' = "idle"
    /\ UNCHANGED <<ctorVars, rep, buildVars, callVars>>

Construct == ParamsCtor \/ AmgCtor \/ InitCheck \/ InitWhile \/ StepDown \/ InitFinish

----------------------------------------------------------------------------
\* The cycle engine: cycle(level_iterator lvl, rhs, x)

Top == stack[Len(stack)]

\* nxt == end
IsLast(l) == l = Len(levels)

\* the x and rhs a cycle at level l was called with: the caller's vectors at
\* the finest level, the level's own u and f below it
XOf(l)   == IF l = 1 THEN x   ELSE levels[l].u
RhsOf(l) == IF l = 1 THEN rhs ELSE levels[l].f

Frame(l) == [lvl |-> l, pc |-> "enter", j |-> 0, i |-> 0, did |-> <<>>]

SetTop(f) == [stack EXCEPT ![Len(stack)] = f]

Bump(l, op) == [cnt EXCEPT ![l][op] = @ + 1]

\* the statements of one iteration of the ncycle loop, in program order
BodyOrderResidualFirst ==
    <<"residual", "pre", "restrict", "clear", "call", "prolong", "post", "iter_end">>

BodyOrder ==
    <<"pre", "residual", "restrict", "clear", "call", "prolong", "post", "iter_end">>

After(step) ==
    LET k == CHOOSE n \in 1 .. Len(BodyOrder) : BodyOrder[n] = step
    IN  BodyOrder[k + 1]

Running == pc = "running" /\ stack # <<>>

\* level_iterator nxt = lvl, end = levels.end(); ++nxt; if (nxt == end)
Enter ==
    /\ Running /\ Top.pc = "enter"
    /\ stack' = SetTop([Top EXCEPT !.pc = IF IsLast(Top.lvl) THEN "t_pre" ELSE "loop"])
    /\ cnt' = Bump(Top.lvl, "enter")
    /\ UNCHANGED <<ctorVars, rep, buildVars, levels, pc, x, rhs, call, ci, flog>>

\* one relaxation sweep (apply_pre or apply_post) of the cycle at level l
Relaxed(l) ==
    /\ x' = IF l = 1 THEN RelaxX(RhsOf(l), XOf(l)) ELSE x
    /\ levels' = IF l = 1
                 THEN [levels EXCEPT ![l].t = RelaxT(RhsOf(l), XOf(l))]
                 ELSE [levels EXCEPT ![l].t = RelaxT(RhsOf(l), XOf(l)),
                                     ![l].u = RelaxX(RhsOf(l), XOf(l))]

\* terminal branch: lvl->relax->apply_pre(*lvl->A, rhs, x, *lvl->t, prm.relax)
TermPre ==
    /\ Running /\ Top.pc = "t_pre"
    /\ Relaxed(Top.lvl)
    /\ cnt' = Bump(Top.lvl, "pre")
    /\ stack' = SetTop([Top EXCEPT !.pc = "t_post", !.did = Append(@, "pre")])
    /\ UNCHANGED <<ctorVars, rep, buildVars, pc, rhs, call, ci, flog>>

\* terminal branch: lvl->relax->apply_post(*lvl->A, rhs, x, *lvl->t, prm.relax)
TermPostSkipped ==
    /\ Running /\ Top.pc = "t_post"
    /\ stack' = SetTop([Top EXCEPT !.pc = "ret"])
    /\ UNCHANGED <<ctorVars, rep, buildVars, levels, cnt, pc, x, rhs, call, ci, flog>>

TermPost ==
    /\ Running /\ Top.pc = "t_post"
    /\ Relaxed(Top.lvl)
    /\ cnt' = Bump(Top.lvl, "post")
    /\ stack' = SetTop([Top EXCEPT !.pc = "ret", !.did = Append(@, "post")])
    /\ UNCHANGED <<ctorVars, rep, buildVars, pc, rhs, call, ci, flog>>

\* for (size_t j = 0; j < prm.ncycle; ++j): the loop test
LoopHeadOffByOne ==
    /\ Running /\ Top.pc = "loop"
    /\ stack' = SetTop(IF Top.j <= prm.ncycle
                       THEN [Top EXCEPT !.pc = BodyOrder[1], !.i = 0, !.did = <<>>]
                       ELSE [Top EXCEPT !.pc = "ret"])
    /\ UNCHANGED <<ctorVars, rep, buildVars, levels, cnt, pc, x, rhs, call, ci, flog>>

\* for (size_t j = 0; j < prm.ncycle; ++j): the loop test
LoopHead ==
    /\ Running /\ Top.pc = "loop"
    /\ stack' = SetTop(IF Top.j < prm.ncycle
                       THEN [Top EXCEPT !.pc = BodyOrder[1], !.i = 0, !.did = <<>>]
                       ELSE [Top EXCEPT !.pc = "ret"])
    /\ UNCHANGED <<ctorVars, rep, buildVars, levels, cnt, pc, x, rhs, call, ci, flog>>

\* for (i < prm.npre) lvl->relax->apply_pre(...)
PreSweepAtLeastOnce ==
    /\ Running /\ Top.pc = "pre"
    /\ IF Top.i < prm.npre \/ Top.i = 0
       THEN /\ Relaxed(Top.lvl)
            /\ cnt' = Bump(Top.lvl, "pre")
            /\ stack' = SetTop([Top EXCEPT !.i = @ + 1, !.did = Append(@, "pre")])
       ELSE /\ stack' = SetTop([Top EXCEPT !.pc = After("pre"), !.i = 0])
            /\ UNCHANGED <<levels, cnt, x>>
    /\ UNCHANGED <<ctorVars, rep, buildVars, pc, rhs, call, ci, flog>>

\* for (i < prm.npre) lvl->relax->apply_pre(...)
PreSweep ==
    /\ Running /\ Top.pc = "pre"
    /\ IF Top.i < prm.npre
       THEN /\ Relaxed(Top.lvl)
            /\ cnt' = Bump(Top.lvl, "pre")
            /\ stack' = SetTop([Top EXCEPT !.i = @ + 1, !.did = Append(@, "pre")])
       ELSE /\ stack' = SetTop([Top EXCEPT !.pc = After("pre"), !.i = 0])
            /\ UNCHANGED <<levels, cnt, x>>
    /\ UNCHANGED <<ctorVars, rep, buildVars, pc, rhs, call, ci, flog>>

\* backend::residual(rhs, *lvl->A, x, *lvl->t)
ResidualStep ==
    /\ Running /\ Top.pc = "residual"
    /\ levels' = [levels EXCEPT ![Top.lvl].t = Residual(RhsOf(Top.lvl), XOf(Top.lvl))]
    /\ cnt' = Bump(Top.lvl, "residual")
    /\ stack' = SetTop([Top EXCEPT !.pc = After("residual"), !.did = Append(@, "residual")])
    /\ UNCHANGED <<ctorVars, rep, buildVars, pc, x, rhs, call, ci, flog>>

\* backend::spmv(1, *lvl->R, *lvl->t, 0, *nxt->f); *lvl->R of a null R is
\* undefined: the call aborts or computes from whatever is read
RestrictStep ==
    /\ Running /\ Top.pc = "restrict"
    /\ \/ /\ levels' = [levels EXCEPT ![Top.lvl + 1].f =
                           Spmv(levels[Top.lvl].R, levels[Top.lvl].t, 0, @)]
          /\ cnt' = Bump(Top.lvl, "restrict")
          /\ stack' = SetTop([Top EXCEPT !.pc = After("restrict"),
                                         !.did = Append(@, "restrict")])
          /\ pc' = pc
       \/ /\ IsNull(levels[Top.lvl].R)
          /\ pc' = "crashed"
          /\ UNCHANGED <<levels, cnt, stack>>
    /\ UNCHANGED <<ctorVars, rep, buildVars, x, rhs, call, ci, flog>>

\* backend::clear(*nxt->u)
ClearStepSkipped ==
    /\ Running /\ Top.pc = "clear"
    /\ levels' = levels
    /\ cnt' = Bump(Top.lvl, "clear")
    /\ stack' = SetTop([Top EXCEPT !.pc = After("clear"), !.did = Append(@, "clear")])
    /\ UNCHANGED <<ctorVars, rep, buildVars, pc, x, rhs, call, ci, flog>>

\* backend::clear(*nxt->u)
ClearStep ==
    /\ Running /\ Top.pc = "clear"
    /\ levels' = [levels EXCEPT ![Top.lvl + 1].u = Clear]
    /\ cnt' = Bump(Top.lvl, "clear")
    /\ stack' = SetTop([Top EXCEPT !.pc = After("clear"), !.did = Append(@, "clear")])
    /\ UNCHANGED <<ctorVars, rep, buildVars, pc, x, rhs, call, ci, flog>>

\* cycle(nxt, *nxt->f, *nxt->u)
CallStep ==
    /\ Running /\ Top.pc = "call"
    /\ stack' = Append(SetTop([Top EXCEPT !.pc = After("call"), !.did = Append(@, "call")]),
                       Frame(Top.lvl + 1))
    /\ UNCHANGED <<ctorVars, rep, buildVars, levels, cnt, pc, x, rhs, call, ci, flog>>

\* backend::spmv(1, *lvl->P, *nxt->u, 1, x); a null P as for RestrictStep
ProlongStepReleasesP ==
    /\ Running /\ Top.pc = "prolong"
    /\ \/ LET v == Spmv(levels[Top.lvl].P, levels[Top.lvl + 1].u, 1, XOf(Top.lvl))
          IN  /\ x' = IF Top.lvl = 1 THEN v ELSE x
              /\ levels' = IF Top.lvl = 1 THEN [levels EXCEPT ![Top.lvl].P = NULL]
                           ELSE [levels EXCEPT ![Top.lvl].u = v, ![Top.lvl].P = NULL]
              /\ cnt' = Bump(Top.lvl, "prolong")
              /\ stack' = SetTop([Top EXCEPT !.pc = After("prolong"),
                                             !.did = Append(@, "prolong")])
              /\ pc' = pc
       \/ /\ IsNull(levels[Top.lvl].P)
          /\ pc' = "crashed"
          /\ UNCHANGED <<levels, cnt, stack, x>>
    /\ UNCHANGED <<ctorVars, rep, buildVars, rhs, call, ci, flog>>

\* backend::spmv(1, *lvl->P, *nxt->u, 1, x); a null P as for RestrictStep
ProlongStep ==
    /\ Running /\ Top.pc = "prolong"
    /\ \/ LET v == Spmv(levels[Top.lvl].P, levels[Top.lvl + 1].u, 1, XOf(Top.lvl))
          IN  /\ x' = IF Top.lvl = 1 THEN v ELSE x
              /\ levels' = IF Top.lvl = 1 THEN levels
                           ELSE [levels EXCEPT ![Top.lvl].u = v]
              /\ cnt' = Bump(Top.lvl, "prolong")
              /\ stack' = SetTop([Top EXCEPT !.pc = After("prolong"),
                                             !.did = Append(@, "prolong")])
              /\ pc' = pc
       \/ /\ IsNull(levels[Top.lvl].P)
          /\ pc' = "crashed"
          /\ UNCHANGED <<levels, cnt, stack, x>>
    /\ UNCHANGED <<ctorVars, rep, buildVars, rhs, call, ci, flog>>

\* for (i < prm.npost) lvl->relax->apply_post(...)
PostSweep ==
    /\ Running /\ Top.pc = "post"
    /\ IF Top.i < prm.npost
       THEN /\ Relaxed(Top.lvl)
            /\ cnt' = Bump(Top.lvl, "post")
            /\ stack' = SetTop([Top EXCEPT !.i = @ + 1, !.did = Append(@, "post")])
       ELSE /\ stack' = SetTop([Top EXCEPT !.pc = After("post"), !.i = 0])
            /\ UNCHANGED <<levels, cnt, x>>
    /\ UNCHANGED <<ctorVars, rep, buildVars, pc, rhs, call, ci, flog>>

\* ++j
IterEnd ==
    /\ Running /\ Top.pc = "iter_end"
    /\ stack' = SetTop([Top EXCEPT !.pc = "loop", !.j = @ + 1])
    /\ UNCHANGED <<ctorVars, rep, buildVars, levels, cnt, pc, x, rhs, call, ci, flog>>

\* return from cycle(level_iterator, rhs, x)
Ret ==
    /\ Running /\ Top.pc = "ret"
    /\ stack' = SubSeq(stack, 1, Len(stack) - 1)
    /\ pc' = IF Len(stack) > 1 THEN pc
             ELSE IF call = "apply" THEN "apply_loop" ELSE "returned"
    /\ UNCHANGED <<ctorVars, rep, buildVars, levels, cnt, x, rhs, call, ci, flog>>

Cycle ==
    \/ Enter \/ TermPre \/ TermPost \/ LoopHead \/ PreSweep \/ ResidualStep
    \/ RestrictStep \/ ClearStep \/ CallStep \/ ProlongStep \/ PostSweep
    \/ IterEnd \/ Ret

----------------------------------------------------------------------------
\* The facade: cycle(rhs, x) and apply(rhs, x)

\* cycle(rhs, x): cycle(levels.begin(), rhs, x)
PublicCycle ==
    /\ pc = "idle"
    /\ call' = "cycle"
    /\ stack' = <<Frame(1)>>
    /\ flog' = <<"cycle">>
    /\ pc' = "running"
    /\ UNCHANGED <<ctorVars, rep, buildVars, levels, cnt, x, rhs, ci>>

\* apply(rhs, x): if (prm.pre_cycles) { backend::clear(x); ... }
\* else backend::copy(rhs, x)
ApplyStartNoCopy ==
    /\ pc = "idle"
    /\ call' = "apply"
    /\ x' = Clear
    /\ flog' = <<"clear">>
    /\ pc' = "apply_loop"
    /\ ci' = 0
    /\ UNCHANGED <<ctorVars, rep, buildVars, levels, cnt, stack, rhs>>

ApplyStart ==
    /\ pc = "idle"
    /\ call' = "apply"
    /\ IF prm.pre_cycles > 0
       THEN /\ x' = Clear
            /\ flog' = <<"clear">>
            /\ pc' = "apply_loop"
       ELSE /\ x' = Copy(rhs)
            /\ flog' = <<"copy">>
            /\ pc' = "returned"
    /\ ci' = 0
    /\ UNCHANGED <<ctorVars, rep, buildVars, levels, cnt, stack, rhs>>

\* apply: for (i < prm.pre_cycles) cycle(levels.begin(), rhs, x)
ApplyLoopClears ==
    /\ pc = "apply_loop"
    /\ IF ci < prm.pre_cycles
       THEN /\ stack' = <<Frame(1)>>
            /\ ci' = ci + 1
            /\ x' = Clear
            /\ flog' = flog \o <<"clear", "cycle">>
            /\ pc' = "running"
       ELSE /\ pc' = "returned"
            /\ UNCHANGED <<stack, ci, flog, x>>
    /\ UNCHANGED <<ctorVars, rep, buildVars, levels, cnt, rhs, call>>

ApplyLoop ==
    /\ pc = "apply_loop"
    /\ IF ci < prm.pre_cycles
       THEN /\ stack' = <<Frame(1)>>
            /\ ci' = ci + 1
            /\ flog' = Append(flog, "cycle")
            /\ pc' = "running"
       ELSE /\ pc' = "returned"
            /\ UNCHANGED <<stack, ci, flog>>
    /\ UNCHANGED <<ctorVars, rep, buildVars, levels, cnt, x, rhs, call>>

\* the public call returns; the caller may call again with fresh arguments,
\* and what the call left in the work vectors is the next call's prior content
Return ==
    /\ pc = "returned"
    /\ pc' = "idle"
    /\ call' = "none"
    /\ ci' = 0
    /\ flog' = <<>>
    /\ x' = X0
    /\ rhs' = RHS
    /\ levels' = [l \in 1 .. Len(levels) |->
                    [levels[l] EXCEPT !.f = STALE, !.u = STALE, !.t = STALE]]
    /\ cnt' = [l \in 1 .. Len(levels) |-> ZeroCnt]
    /\ UNCHANGED <<ctorVars, rep, buildVars, stack>>

Facade == PublicCycle \/ ApplyStart \/ ApplyLoop \/ Return

----------------------------------------------------------------------------
\* Reporting: operator<<(std::ostream&, const amg&)

\* the values A->glob_nonzeros() can have for an operator
NnzChoices(M) == 0 .. (IF M.rows * M.cols < MaxNnz THEN M.rows * M.cols ELSE MaxNnz)

\* the operators of the hierarchy, by id
LevelIds == {levels[l].A.id : l \in 1 .. Len(levels)}

OperatorOf(i) == levels[CHOOSE l \in 1 .. Len(levels) : levels[l].A.id = i].A

\* 1.0 * a / b in double arithmetic: a quotient, or inf or nan when b is 0
Quot(a, b) ==
    IF b = 0 THEN [kind |-> IF a = 0 THEN "nan" ELSE "inf", num |-> a, den |-> b]
    ELSE [kind |-> "num", num |-> a, den |-> b]

\* os << std::fixed << std::setprecision(2) << q: hundredths, rounded
Fixed2(q) ==
    IF q.kind = "num"
    THEN [kind |-> "num", hundredths |-> (200 * q.num + q.den) \div (2 * q.den)]
    ELSE [kind |-> q.kind, hundredths |-> 0]

\* size_t sum_dof = 0; size_t sum_nnz = 0; the nonzero counts of the
\* operators are read by nothing but operator<<, and are drawn here
ReportStart ==
    /\ pc = "idle"
    /\ \E nz \in [LevelIds -> 0 .. MaxNnz] :
          /\ \A i \in LevelIds : nz[i] \in NnzChoices(OperatorOf(i))
          /\ rep' = [NoReport EXCEPT !.nnz = nz]
    /\ pc' = "report_sum"
    /\ UNCHANGED <<ctorVars, buildVars, levels, callVars, cnt>>

\* BOOST_FOREACH(const level &lvl, a.levels) { sum_dof += ...; sum_nnz += ...; }
ReportSum ==
    /\ pc = "report_sum"
    /\ IF rep.k < Len(levels)
       THEN /\ rep' = [rep EXCEPT !.k = @ + 1,
                                  !.sum_dof = @ + levels[rep.k + 1].A.rows,
                                  !.sum_nnz = @ + rep.nnz[levels[rep.k + 1].A.id]]
            /\ pc' = pc
       ELSE /\ pc' = "report_print"
            /\ UNCHANGED rep
    /\ UNCHANGED <<ctorVars, buildVars, levels, callVars, cnt>>

\* the summary lines and the per-level table
ReportPrintOverLast ==
    /\ pc = "report_print"
    /\ LET opc  == Quot(rep.sum_nnz, rep.nnz[levels[Len(levels)].A.id])
           grid == Quot(rep.sum_dof, levels[Len(levels)].A.rows)
       IN  rep' = [rep EXCEPT !.out =
                     [nlevels |-> Len(levels),
                      opc |-> opc, opc_text |-> Fixed2(opc),
                      grid |-> grid, grid_text |-> Fixed2(grid),
                      table |-> [l \in 1 .. Len(levels) |->
                                   [unknowns |-> levels[l].A.rows,
                                    nonzeros |-> rep.nnz[levels[l].A.id],
                                    share |-> Fixed2(Quot(100 * rep.nnz[levels[l].A.id],
                                                          rep.sum_nnz))]]]]
    /\ pc' = "reported"
    /\ UNCHANGED <<ctorVars, buildVars, levels, callVars, cnt>>

ReportPrint ==
    /\ pc = "report_print"
    /\ LET opc  == Quot(rep.sum_nnz, rep.nnz[levels[1].A.id])
           grid == Quot(rep.sum_dof, levels[1].A.rows)
       IN  rep' = [rep EXCEPT !.out =
                     [nlevels |-> Len(levels),
                      opc |-> opc, opc_text |-> Fixed2(opc),
                      grid |-> grid, grid_text |-> Fixed2(grid),
                      table |-> [l \in 1 .. Len(levels) |->
                                   [unknowns |-> levels[l].A.rows,
                                    nonzeros |-> rep.nnz[levels[l].A.id],
                                    share |-> Fixed2(Quot(100 * rep.nnz[levels[l].A.id],
                                                          rep.sum_nnz))]]]]
    /\ pc' = "reported"
    /\ UNCHANGED <<ctorVars, buildVars, levels, callVars, cnt>>

\* return os; what was written is the caller's from here on
ReportReturn ==
    /\ pc = "reported"
    /\ rep' = NoReport
    /\ pc' = "idle"
    /\ UNCHANGED <<ctorVars, buildVars, levels, callVars, cnt>>

\* system_matrix_ptr(): return levels.front().A; system_matrix() is
\* *system_matrix_ptr()
SystemMatrixPtrBack == levels[Len(levels)].A

SystemMatrixPtr == levels[1].A

Report == ReportStart \/ ReportSum \/ ReportPrint \/ ReportReturn

Next == Construct \/ Cycle \/ Facade \/ Report

Spec == Init /\ [][Next]_vars

----------------------------------------------------------------------------
\* Properties

\* construction has returned normally: the hierarchy is the one it produced
\* ---------------------------------------------------------------------
\* Several processes: each process of the communicator runs init and cycle
\* on its own part of the distributed matrix.  A collective operation
\* (step_down, a relaxation sweep, residual, spmv) completes only when every
\* process has entered the same one.
\* ---------------------------------------------------------------------

seqVars == <<prm, Ain, A, levels, pc, nStepDown, nCoarseOp,
             stack, x, rhs, call, ci, flog, cnt, rep>>

\* what one process sees of a distributed matrix: glob_rows(), glob_cols()
\* and its own loc_rows()
View(r, c, l) == [rows |-> r, cols |-> c, id |-> 0, loc |-> l]

RECURSIVE SumOver(_, _)

\* the global count that the local counts of the processes in S add up to
SumOver(f, S) ==
    IF S = {} THEN 0
    ELSE LET p == CHOOSE q \in S : TRUE IN f[p] + SumOver(f, S \ {p})

\* level(A, prm, bprm) on one process: vectors of A->loc_rows() entries
RankLevel(M) == [A |-> M, P |-> NULL, R |-> NULL, n |-> M.loc]

SetRank(p, r) == [ranks EXCEPT ![p] = r]

InitMPI ==
    /\ prm \in [coarse_enough : 0 .. MaxCoarseEnough,
                max_levels    : 0 .. MaxLevelsParam,
                npre          : 0 .. MaxSweeps,
                npost         : 0 .. MaxSweeps,
                ncycle        : 0 .. MaxNCycle,
                pre_cycles    : {0}]
    /\ Ain \in {Matrix(r, c, 0) : r \in 0 .. MaxRows, c \in 0 .. MaxRows}
    /\ \E loc \in [Procs -> 0 .. MaxRows] :
          /\ SumOver(loc, Procs) = Ain.rows
          /\ ranks = [p \in Procs |->
                        [pc |-> "init", A |-> View(Ain.rows, Ain.cols, loc[p]),
                         levels |-> <<>>, stack |-> <<>>, log |-> <<>>]]
    /\ A = NULL
    /\ levels = <<>>
    /\ pc = "mpi"
    /\ nStepDown = 0
    /\ nCoarseOp = 0
    /\ stack = <<>>
    /\ x = X0
    /\ rhs = RHS
    /\ call = "none"
    /\ ci = 0
    /\ flog = <<>>
    /\ cnt = <<>>
    /\ rep = NoReport

\* precondition(A->glob_rows() == A->glob_cols(), ...)
MpiInitCheck(p) ==
    LET r == ranks[p]
    IN  /\ r.pc = "init"
        /\ ranks' = SetRank(p, [r EXCEPT !.pc = IF r.A.rows = r.A.cols
                                                THEN "while" ELSE "failed"])
        /\ UNCHANGED seqVars

\* the while loop of init up to the call of step_down, which is collective
MpiInitWhile(p) ==
    LET r  == ranks[p]
        lv == Append(r.levels, RankLevel(r.A))
    IN  /\ r.pc = "while"
        /\ ranks' = SetRank(p,
              IF r.A.rows > prm.coarse_enough /\ Len(r.levels) < prm.max_levels
              THEN IF Len(lv) >= prm.max_levels
                   THEN [r EXCEPT !.levels = lv, !.pc = "after"]
                   ELSE [r EXCEPT !.levels = lv, !.pc = "step_down",
                                  !.log = Append(@, <<"step_down", Len(lv)>>)]
              ELSE [r EXCEPT !.pc = "after"])
        /\ UNCHANGED seqVars

\* every process is inside the same step_down: transfer_operators and
\* coarse_operator return, each process keeping part of the coarse rows
MpiStepDown ==
    /\ \A p \in Procs : ranks[p].pc = "step_down"
    /\ \A p, q \in Procs : ranks[p].log = ranks[q].log
    /\ \E ncl \in [Procs -> 0 .. MaxRows] :
          /\ \A p \in Procs : ncl[p] <= ranks[p].A.loc
          /\ LET nc == SumOver(ncl, Procs)
             IN  ranks' = [p \in Procs |->
                    LET r  == ranks[p]
                        n  == Len(r.levels)
                        P  == View(r.A.rows, nc, r.A.loc)
                        R  == View(nc, r.A.rows, ncl[p])
                        Ac == IF P.cols = 0 THEN NULL ELSE View(nc, nc, ncl[p])
                    IN  [r EXCEPT !.levels[n].P = P, !.levels[n].R = R,
                                  !.A = Ac,
                                  !.pc = IF IsNull(Ac) THEN "after" ELSE "while"]]
    /\ UNCHANGED seqVars

\* if (A) { levels.push_back(level(A, prm, bprm)); ... }
MpiInitFinish(p) ==
    LET r == ranks[p]
    IN  /\ r.pc = "after"
        /\ ranks' = SetRank(p,
              IF ~IsNull(r.A)
              THEN [r EXCEPT !.levels = Append(@, RankLevel(r.A)), !.pc = "idle"]
              ELSE [r EXCEPT !.pc = "idle"])
        /\ UNCHANGED seqVars

\* every process calls cycle(rhs, x)
MpiCycleStart ==
    /\ \A p \in Procs : ranks[p].pc = "idle" /\ ranks[p].stack = <<>>
    /\ ranks' = [p \in Procs |->
                   [ranks[p] EXCEPT !.pc = "running", !.stack = <<Frame(1)>>]]
    /\ UNCHANGED seqVars

\* the frame is at a call that involves the other processes
AtCollective(f) ==
    \/ f.pc \in {"t_pre", "t_post", "residual", "restrict", "prolong"}
    \/ f.pc = "pre"  /\ f.i < prm.npre
    \/ f.pc = "post" /\ f.i < prm.npost

\* one statement of cycle(level_iterator, rhs, x) that involves no other
\* process, on the activation records stk of a process with nlev levels
LocalStep(stk, nlev) ==
    LET f   == stk[Len(stk)]
        set(g) == [stk EXCEPT ![Len(stk)] = g]
    IN  CASE f.pc = "enter" ->
                set([f EXCEPT !.pc = IF f.lvl = nlev THEN "t_pre" ELSE "loop"])
          [] f.pc = "loop" ->
                set(IF f.j < prm.ncycle
                    THEN [f EXCEPT !.pc = BodyOrder[1], !.i = 0]
                    ELSE [f EXCEPT !.pc = "ret"])
          [] f.pc \in {"pre", "post"} ->
                set([f EXCEPT !.pc = After(f.pc), !.i = 0])
          [] f.pc = "clear" ->
                set([f EXCEPT !.pc = After("clear")])
          [] f.pc = "call" ->
                Append(set([f EXCEPT !.pc = After("call")]), Frame(f.lvl + 1))
          [] f.pc = "iter_end" ->
                set([f EXCEPT !.pc = "loop", !.j = @ + 1])
          [] f.pc = "ret" ->
                SubSeq(stk, 1, Len(stk) - 1)

RECURSIVE RunLocal(_, _)

\* run the process up to its next collective call, or to the return of the
\* outermost cycle
RunLocal(stk, nlev) ==
    IF stk = <<>> \/ AtCollective(stk[Len(stk)]) THEN stk
    ELSE RunLocal(LocalStep(stk, nlev), nlev)

\* the operand of the product is *lvl->R or *lvl->P of a null pointer
NullOperand(r, f) ==
    \/ f.pc = "restrict" /\ IsNull(r.levels[f.lvl].R)
    \/ f.pc = "prolong"  /\ IsNull(r.levels[f.lvl].P)

\* process p runs to its next collective call and enters it, or returns from
\* cycle(rhs, x); dereferencing a null transfer operator is undefined: the
\* process aborts or goes on into the product
MpiEnter(p) ==
    LET r   == ranks[p]
        stk == RunLocal(r.stack, Len(r.levels))
        f   == stk[Len(stk)]
    IN  /\ r.pc = "running"
        /\ \/ /\ stk = <<>>
              /\ ranks' = SetRank(p, [r EXCEPT !.pc = "returned", !.stack = stk])
           \/ /\ stk # <<>>
              /\ ranks' = SetRank(p, [r EXCEPT !.pc = "blocked", !.stack = stk,
                                               !.log = Append(@, <<f.pc, f.lvl>>)])
           \/ /\ stk # <<>>
              /\ NullOperand(r, f)
              /\ ranks' = SetRank(p, [r EXCEPT !.pc = "crashed", !.stack = stk])
        /\ UNCHANGED seqVars

\* the statement after a collective call of the frame
Completed(f) ==
    CASE f.pc = "t_pre"  -> [f EXCEPT !.pc = "t_post"]
      [] f.pc = "t_post" -> [f EXCEPT !.pc = "ret"]
      [] f.pc \in {"pre", "post"} -> [f EXCEPT !.i = @ + 1]
      [] OTHER -> [f EXCEPT !.pc = After(f.pc)]

\* every process is inside the same collective call: it completes
MpiComplete ==
    /\ \A p \in Procs : ranks[p].pc = "blocked"
    /\ \A p, q \in Procs : ranks[p].log = ranks[q].log
    /\ ranks' = [p \in Procs |->
                   LET r == ranks[p]
                   IN  [r EXCEPT !.pc = "running",
                                 !.stack[Len(r.stack)] = Completed(@)]]
    /\ UNCHANGED seqVars

NextMPI ==
    \/ \E p \in Procs : MpiInitCheck(p)
    \/ \E p \in Procs : MpiInitWhile(p)
    \/ MpiStepDown
    \/ \E p \in Procs : MpiInitFinish(p)
    \/ MpiCycleStart
    \/ \E p \in Procs : MpiEnter(p)
    \/ MpiComplete

SpecMPI == InitMPI /\ [][NextMPI]_vars


Constructed ==
    pc \in {"idle", "running", "apply_loop", "returned", "crashed",
            "report_sum", "report_print", "reported"}

Last == levels[Len(levels)]

IsPrefix(s, t) == Len(s) <= Len(t) /\ SubSeq(t, 1, Len(s)) = s

Rep(e, n) == [k \in 1 .. n |-> e]

\* C1: for max_levels >= 1 the hierarchy that construction produces has at
\* most max_levels levels, also when the limit is reached while the current
\* operator still has more than coarse_enough rows.
C1_AtMostMaxLevels ==
    (Constructed /\ prm.max_levels >= 1) => Len(levels) <= prm.max_levels

\* C2: in a constructed hierarchy every level but the last has both P and R
\* non-null, so the recursive branch of cycle never reads a null transfer
\* operator.
C2_NonLastHaveTransfer ==
    Constructed =>
        \A l \in 1 .. Len(levels) - 1 :
            ~IsNull(levels[l].P) /\ ~IsNull(levels[l].R)

\* C3 as stated: in a constructed hierarchy the last level has P == null and
\* R == null, also when growth stopped on a prolongation with zero columns.
C3_LastHasNoTransfer ==
    Constructed => IsNull(Last.P) /\ IsNull(Last.R)

\* C3 amended: the last level has P == null and R == null unless growth
\* stopped because step_down produced a prolongation with zero global
\* columns; in that case the last level keeps the P (zero columns) and the R
\* that step_down assigned, both non-null.
C3_LastTransferAmended ==
    Constructed =>
        IF IsNull(A)
        THEN ~IsNull(Last.P) /\ ~IsNull(Last.R) /\ Last.P.cols = 0
        ELSE IsNull(Last.P) /\ IsNull(Last.R)

C3_Witness ==
    /\ pc = "idle" /\ IsNull(A) /\ nStepDown >= 1
    /\ Last.stepped /\ Last.P.cols = 0

C5_TerminalCycle ==
    Constructed =>
        /\ \A k \in 1 .. Len(stack) :
              IsLast(stack[k].lvl) =>
                  /\ k = Len(stack)
                  /\ stack[k].pc \in {"enter", "t_pre", "t_post", "ret"}
                  /\ stack[k].did = CASE stack[k].pc = "t_post" -> <<"pre">>
                                      [] stack[k].pc = "ret"    -> <<"pre", "post">>
                                      [] OTHER                  -> <<>>
        /\ LET c == cnt[Len(levels)]
               active == stack # <<>> /\ IsLast(Top.lvl)
           IN  /\ c.residual = 0 /\ c.restrict = 0 /\ c.prolong = 0 /\ c.clear = 0
               /\ ~active => c.pre = c.enter /\ c.post = c.enter
               /\ (active /\ Top.pc = "ret") => c.pre = c.enter /\ c.post = c.enter
        /\ (pc = "returned" /\ call = "cycle" /\ Len(levels) = 1) =>
              /\ cnt[1].enter = 1 /\ cnt[1].pre = 1 /\ cnt[1].post = 1
              /\ x = X0 \cup RHS

C5_Witness ==
    /\ pc = "returned" /\ call = "cycle" /\ Len(levels) = 1
    /\ prm.npre = 0 /\ prm.npost = 0 /\ prm.ncycle = 0
    /\ cnt[1].pre = 1 /\ cnt[1].post = 1

\* what C6 says one iteration of the ncycle loop does, in order
C6_Expected ==
    Rep("pre", prm.npre)
        \o <<"residual", "restrict", "clear", "call", "prolong">>
        \o Rep("post", prm.npost)

\* C6: in each ncycle iteration at a non-last level the operations are, in
\* this order, npre pre-relaxations, the residual, the restriction, the
\* clearing of the next level's u, the recursive cycle, the prolongation and
\* npost post-relaxations: none skipped, none reordered.
C6_BodyOrder ==
    Constructed =>
        \A k \in 1 .. Len(stack) :
            (~IsLast(stack[k].lvl) /\ stack[k].pc \notin {"enter", "loop", "ret"}) =>
                /\ IsPrefix(stack[k].did, C6_Expected)
                /\ stack[k].pc = "iter_end" => stack[k].did = C6_Expected
                /\ stack[k].pc = "restrict" =>
                      levels[stack[k].lvl].t = RhsOf(stack[k].lvl) \cup XOf(stack[k].lvl)
                /\ (k < Len(stack) /\ stack[k + 1].pc = "enter") =>
                      /\ stack[k].did = Rep("pre", prm.npre)
                                            \o <<"residual", "restrict", "clear", "call">>
                      /\ levels[stack[k].lvl + 1].u = {}

C6_Witness ==
    /\ pc = "running" /\ stack # <<>>
    /\ ~IsLast(Top.lvl) /\ Top.pc = "iter_end" /\ Top.j = 1
    /\ prm.npre = 1 /\ prm.npost = 1
    /\ Top.did = <<"pre", "residual", "restrict", "clear", "call", "prolong", "post">>
    /\ ~IsNull(levels[Top.lvl].P) /\ ~IsNull(levels[Top.lvl].R)

\* C7: apply with pre_cycles = k > 0 clears x once, before the first cycle,
\* then runs the cycle from the finest level k times without clearing x in
\* between; the public cycle runs one cycle from the finest level and never
\* clears x; so apply is clear(x) followed by k public cycles.
C7_ApplyClearsOnce ==
    /\ (call = "apply" /\ prm.pre_cycles > 0) =>
          /\ flog = <<"clear">> \o Rep("cycle", ci)
          /\ ci <= prm.pre_cycles
          /\ pc = "returned" => ci = prm.pre_cycles /\ cnt[1].enter = prm.pre_cycles
          /\ \A k \in 1 .. Len(stack) : stack[k].lvl = k
    /\ call = "cycle" =>
          /\ flog = <<"cycle">>
          /\ "x0" \in x
          /\ pc = "returned" => cnt[1].enter = 1
          /\ \A k \in 1 .. Len(stack) : stack[k].lvl = k

C7_Witness ==
    /\ call = "apply" /\ pc = "returned" /\ prm.pre_cycles = 2
    /\ flog = <<"clear", "cycle", "cycle">>
    /\ Len(levels) >= 2

\* C8: apply with pre_cycles == 0 sets x to rhs and does nothing else: no
\* cycle, relaxation, residual or spmv runs and no level's f, u or t is
\* written.
C8_ApplyZeroIsCopy ==
    (call = "apply" /\ prm.pre_cycles = 0) =>
        /\ pc = "returned"
        /\ x = rhs
        /\ flog = <<"copy">>
        /\ stack = <<>>
        /\ \A l \in 1 .. Len(levels) :
              /\ cnt[l] = ZeroCnt
              /\ levels[l].f = STALE /\ levels[l].u = STALE /\ levels[l].t = STALE

C8_Witness ==
    /\ call = "apply" /\ prm.pre_cycles = 0 /\ pc = "returned"
    /\ x = RHS /\ Len(levels) >= 2

\* C9: construction with max_levels == 0 is rejected, however the parameter
\* set was produced, and no hierarchy is built.
C9_ZeroMaxLevelsRejected ==
    prm.max_levels = 0 => ~Constructed /\ levels = <<>>

\* C10: construction with glob_rows != glob_cols fails before any level is
\* created: no level, work vector or relaxation object is built and no
\* coarsening call is made.
C10_NonSquareRejected ==
    Ain.rows # Ain.cols =>
        /\ pc \in {"params", "ctor", "init", "failed"}
        /\ levels = <<>> /\ cnt = <<>>
        /\ nStepDown = 0 /\ nCoarseOp = 0

C10_Witness ==
    /\ Ain.rows # Ain.cols /\ pc = "failed"
    /\ A = Ain

\* the level l holds a prolongation with zero global columns
ZeroColumnP(l) == ~IsNull(levels[l].P) /\ levels[l].P.cols = 0

\* C11: when step_down yields a P with zero global columns, coarse_operator
\* is not called, no further level is appended, the level step_down was
\* called on is the last one, and every later cycle treats it with the
\* terminal branch and never uses its P or R.
C11_DegenerateStop ==
    \A l \in 1 .. Len(levels) :
        ZeroColumnP(l) =>
            /\ l = Len(levels) /\ levels[l].stepped
            /\ IsNull(A)
            /\ (pc = "after" \/ Constructed)
            /\ nStepDown = l /\ nCoarseOp = l - 1
            /\ Constructed =>
                  /\ cnt[l].restrict = 0 /\ cnt[l].prolong = 0
                  /\ cnt[l].residual = 0 /\ cnt[l].clear = 0
                  /\ \A k \in 1 .. Len(stack) :
                        stack[k].lvl = l =>
                            stack[k].pc \in {"enter", "t_pre", "t_post", "ret"}

C11_Witness ==
    /\ pc = "returned" /\ ZeroColumnP(Len(levels))
    /\ cnt[Len(levels)].enter >= 1 /\ cnt[Len(levels)].post = cnt[Len(levels)].enter

\* C12: in a hierarchy produced by construction the global row count of
\* level i+1 is at most that of level i, for every pair of consecutive levels.
C12_RowsNonIncreasing ==
    \A l \in 1 .. Len(levels) - 1 :
        levels[l + 1].A.rows <= levels[l].A.rows

C12_Witness ==
    /\ pc = "idle" /\ Len(levels) >= 2
    /\ levels[2].A.rows < levels[1].A.rows
    /\ levels[2].A.id # levels[1].A.id

\* an apply on a two-level hierarchy with npre == npost == 0 has returned
C13_Case ==
    /\ pc = "returned" /\ call = "apply"
    /\ prm.npre = 0 /\ prm.npost = 0
    /\ Len(levels) = 2

\* C13 as stated: with npre == 0 and npost == 0 on a two-level hierarchy,
\* apply with pre_cycles == k performs k coarse-grid corrections and no
\* relaxation sweep runs at any level (read here on the hierarchies whose
\* finest level has both transfer operators).
C13_NoRelaxationAnywhere ==
    (C13_Case /\ ~IsNull(levels[1].P) /\ ~IsNull(levels[1].R)) =>
        /\ cnt[1].residual = prm.pre_cycles /\ cnt[1].restrict = prm.pre_cycles
        /\ cnt[2].enter = prm.pre_cycles /\ cnt[1].prolong = prm.pre_cycles
        /\ \A l \in 1 .. 2 : cnt[l].pre = 0 /\ cnt[l].post = 0

\* C13 amended: with npre == 0 and npost == 0 on a two-level hierarchy,
\* apply with pre_cycles == k performs k * ncycle coarse-grid corrections
\* (residual, restrict, coarse solve, prolongate-and-add); no relaxation
\* sweep runs at the finest level, and the coarse solve of each correction
\* is exactly one apply_pre and one apply_post at the coarse level.
C13_CorrectionsAmended ==
    C13_Case =>
        LET n == prm.pre_cycles * prm.ncycle
        IN  /\ cnt[1].residual = n /\ cnt[1].restrict = n /\ cnt[1].clear = n
            /\ cnt[2].enter = n /\ cnt[1].prolong = n
            /\ cnt[1].pre = 0 /\ cnt[1].post = 0
            /\ cnt[2].pre = n /\ cnt[2].post = n
            /\ cnt[2].residual = 0 /\ cnt[2].restrict = 0
            /\ cnt[2].clear = 0 /\ cnt[2].prolong = 0

C13_Witness ==
    /\ C13_Case /\ prm.pre_cycles = 2 /\ prm.ncycle = 2
    /\ ~IsNull(levels[1].P) /\ ~IsNull(levels[1].R)
    /\ cnt[1].prolong = 4 /\ cnt[2].post = 4

\* the structure of the hierarchy: the parameter set, the number and order
\* of the levels and each level's A, P, R and relaxation object
Structure ==
    [prm |-> prm,
     lv  |-> [l \in 1 .. Len(levels) |->
                [A |-> levels[l].A, P |-> levels[l].P, R |-> levels[l].R,
                 relax |-> levels[l].relax, backend |-> levels[l].backend]]]

\* C14: after construction every step of an apply or a cycle leaves the
\* structure of the hierarchy as it was (number and order of levels, every
\* level's A, P, R and relaxation object, the parameters); the calls write
\* only the caller's x and the levels' f, u and t, and create no vector.
C14_CallsKeepStructure ==
    [][Constructed => (Structure' = Structure /\ rhs' = rhs /\ Ain' = Ain)]_vars

C14_Witness ==
    /\ pc = "returned" /\ call = "apply" /\ Len(levels) >= 2
    /\ ~IsNull(levels[1].P)
    /\ levels[1].t # STALE /\ levels[2].f # STALE /\ levels[2].u # STALE
    /\ x # X0

RECURSIVE SumRows(_), SumNnz(_)

\* glob_rows and glob_nonzeros summed over the first n levels
SumRows(n) == IF n = 0 THEN 0 ELSE levels[n].A.rows + SumRows(n - 1)

SumNnz(n) == IF n = 0 THEN 0 ELSE rep.nnz[levels[n].A.id] + SumNnz(n - 1)

\* the quotient q is the number a / b
IsRatio(q, a, b) == q.kind = "num" /\ b # 0 /\ q.num * b = a * q.den

\* C15 as stated: the operator complexity operator<< reports is the sum of
\* glob_nonzeros over all levels divided by the finest level's
\* glob_nonzeros, and is exactly 1 for every single-level hierarchy; the
\* grid complexity likewise with glob_rows.
C15_ComplexityIsRatio ==
    pc = "reported" =>
        /\ IsRatio(rep.out.opc, SumNnz(Len(levels)), rep.nnz[levels[1].A.id])
        /\ IsRatio(rep.out.grid, SumRows(Len(levels)), levels[1].A.rows)
        /\ Len(levels) = 1 => IsRatio(rep.out.opc, 1, 1) /\ IsRatio(rep.out.grid, 1, 1)

\* C15 amended: the operator complexity operator<< computes is the double
\* quotient of the sum of glob_nonzeros over all levels by the finest
\* level's glob_nonzeros, and the grid complexity the same with glob_rows.
\* For a single-level hierarchy the sum equals the finest level's count, so
\* the ratio is exactly 1 (printed 1.00) when that count is not zero; when
\* the finest level's count is zero the quotient is not a number: 0/0 (NaN)
\* if the sum is zero too, and infinite otherwise.
C15_ComplexityAmended ==
    pc = "reported" =>
        LET n    == Len(levels)
            nnz0 == rep.nnz[levels[1].A.id]
            dof0 == levels[1].A.rows
            opc  == rep.out.opc
            grid == rep.out.grid
        IN  /\ nnz0 # 0 => IsRatio(opc, SumNnz(n), nnz0)
            /\ nnz0 = 0 => opc.kind = (IF SumNnz(n) = 0 THEN "nan" ELSE "inf")
            /\ dof0 # 0 => IsRatio(grid, SumRows(n), dof0)
            /\ dof0 = 0 => grid.kind = (IF SumRows(n) = 0 THEN "nan" ELSE "inf")
            /\ n = 1 =>
                  /\ SumNnz(n) = nnz0 /\ SumRows(n) = dof0
                  /\ nnz0 # 0 => IsRatio(opc, 1, 1) /\ rep.out.opc_text.hundredths = 100
                  /\ dof0 # 0 => IsRatio(grid, 1, 1) /\ rep.out.grid_text.hundredths = 100

C15_Witness ==
    /\ pc = "reported" /\ Len(levels) >= 2
    /\ levels[1].A.id # levels[2].A.id
    /\ rep.nnz[levels[1].A.id] = 1 /\ rep.nnz[levels[2].A.id] = 1
    /\ IsRatio(rep.out.opc, 2, 1) /\ rep.out.opc_text.hundredths = 200

\* C16: after a successful construction the hierarchy is never empty and
\* system_matrix_ptr() is the first level's operator, the very matrix object
\* made from the input at construction, whatever the parameters and however
\* many apply and cycle calls were made.
C16_SystemMatrixIsInput ==
    Constructed =>
        /\ Len(levels) >= 1
        /\ SystemMatrixPtr = levels[1].A
        /\ SystemMatrixPtr = Ain /\ SystemMatrixPtr.id = 0

C16_Witness ==
    /\ pc = "returned" /\ Len(levels) >= 2
    /\ levels[Len(levels)].A.id # 0
    /\ SystemMatrixPtr.id = 0

\* C17: on every hierarchy produced by construction each call of cycle and
\* of apply terminates (a call in flight has returned or can take its next
\* step), and the recursion of cycle is never deeper than the number of
\* levels.
C17_CallsTerminate ==
    call # "none" =>
        /\ Len(stack) <= Len(levels)
        /\ (pc = "returned" \/ ENABLED Next)

RECURSIVE Pow(_, _)

Pow(b, e) == IF e = 0 THEN 1 ELSE b * Pow(b, e - 1)

\* C19: in one public cycle on n >= 2 levels the non-last level at depth d
\* (finest = 0) is entered ncycle^d times and makes npre * ncycle^(d+1)
\* pre-relaxations and npost * ncycle^(d+1) post-relaxations; the last level
\* is entered ncycle^(n-1) times with one pre- and one post-relaxation each
\* time; with ncycle == 0 the cycle performs no operation and leaves x as
\* it was.
C19_SweepCounts ==
    (pc = "returned" /\ call = "cycle" /\ Len(levels) >= 2) =>
        LET n == Len(levels)
        IN  /\ \A l \in 1 .. n - 1 :
                  /\ cnt[l].enter = Pow(prm.ncycle, l - 1)
                  /\ cnt[l].pre   = prm.npre  * Pow(prm.ncycle, l)
                  /\ cnt[l].post  = prm.npost * Pow(prm.ncycle, l)
            /\ cnt[n].enter = Pow(prm.ncycle, n - 1)
            /\ cnt[n].pre = cnt[n].enter /\ cnt[n].post = cnt[n].enter
            /\ prm.ncycle = 0 =>
                  /\ x = X0
                  /\ \A l \in 1 .. n :
                        cnt[l] = [ZeroCnt EXCEPT !.enter = IF l = 1 THEN 1 ELSE 0]

C19_Witness ==
    /\ pc = "returned" /\ call = "cycle" /\ Len(levels) >= 2
    /\ ~IsNull(levels[1].P) /\ ~IsNull(levels[1].R)
    /\ prm.ncycle = 2 /\ prm.npre = 1 /\ prm.npost = 1
    /\ cnt[1].pre = 2 /\ cnt[2].enter = 2 /\ cnt[2].post = 2

\* C20: what cycle(rhs, x) computes does not depend on what earlier calls
\* left in the work vectors: a coarse level's f is overwritten by the
\* restriction and its u cleared before the recursive call reads them, a
\* level's t is overwritten by the residual before the restriction reads
\* it, and no prior content of f, u or t reaches x.
C20_NoStaleContentRead ==
    (call # "none" /\ Constructed) =>
        /\ "stale" \notin x
        /\ \A k \in 1 .. Len(stack) :
              LET l == stack[k].lvl
              IN  /\ "stale" \notin XOf(l) /\ "stale" \notin RhsOf(l)
                  /\ (l > 1 /\ stack[k].pc = "enter") => levels[l].u = {}
                  /\ stack[k].pc = "restrict" => "stale" \notin levels[l].t

C20_Witness ==
    /\ pc = "returned" /\ call = "cycle" /\ Len(levels) >= 2
    /\ ~IsNull(levels[1].P) /\ ~IsNull(levels[1].R)
    /\ prm.ncycle >= 1
    /\ x = X0 \cup RHS
    /\ levels[2].f = X0 \cup RHS

\* a process that waits inside a collective call
Waiting(r) == r.pc \in {"step_down", "blocked"}

\* a process that will enter no further collective call of the phase the
\* waiting process w is in
Stopped(r, w) ==
    \/ r.pc \in {"returned", "crashed", "failed"}
    \/ r.pc \in {"after", "idle"} /\ w.pc = "step_down"

\* the collective calls of any two processes, in order, agree as far as both
\* have got
CollectiveOrderAgrees ==
    \A p, q \in Procs :
        IsPrefix(ranks[p].log, ranks[q].log) \/ IsPrefix(ranks[q].log, ranks[p].log)

\* processes that have left init built the same levels
SameLevels ==
    \A p, q \in Procs :
        (ranks[p].pc \in {"idle", "running", "blocked", "returned", "crashed"} /\
         ranks[q].pc \in {"idle", "running", "blocked", "returned", "crashed"}) =>
            /\ Len(ranks[p].levels) = Len(ranks[q].levels)
            /\ \A l \in 1 .. Len(ranks[p].levels) :
                  /\ ranks[p].levels[l].A.rows = ranks[q].levels[l].A.rows
                  /\ IsNull(ranks[p].levels[l].P) = IsNull(ranks[q].levels[l].P)

\* no process waits in a collective call that another process never enters
NoOrphanCollective ==
    \A p, q \in Procs :
        Waiting(ranks[p]) =>
            ~(Stopped(ranks[q], ranks[p]) /\ Len(ranks[q].log) < Len(ranks[p].log))

====
